---- MODULE Spec2Model ----
(***************************************************************************)
(* PKP.ai chat client: the session list kept by App, the per-ChatView      *)
(* generation state (isLoading, abortControllerRef), the generation        *)
(* requests in flight, and the pure text functions of ChatView             *)
(* (cleanHtmlContent, sanitizeHistoryContent, the history builder).        *)
(*                                                                         *)
(* Strings are sequences of one-character strings, so that offsets,        *)
(* prefixes and regular-expression matches are computed as the code        *)
(* computes them.  An optional value (undefined | v) is <<>> | <<v>>.      *)
(***************************************************************************)
EXTENDS Naturals, Integers, Sequences, FiniteSets, TLC

VARIABLES
    sessions,            \* App: useState<ChatSession[]>, newest first
    activeSessionId,     \* App: useState<string | null>; 0 is null
    isLoading,           \* ChatView: useState(false)
    abortControllerRef,  \* ChatView: useRef<AbortController | null>; 0 is null
    requests,            \* the calls of handleSendMessage, by call number
    buffer,              \* the input of a function or an effect run on its own:
                         \* a text, or the items of localStorage at mount
    output               \* its result; in SpecControl what the onClick of the
                         \* send/cancel button returned.  In SpecTitle buffer is
                         \* the dependencies the auto-title effect last ran on
                         \* and output the calls of generateTitle it has made

vars == <<sessions, activeSessionId, isLoading, abortControllerRef, requests,
          buffer, output>>

appVars == <<sessions, activeSessionId, isLoading, abortControllerRef, requests>>

(***************************************************************************)
(* Bounds of the model.                                                    *)
(***************************************************************************)
MaxRequests == 2
MaxFragments == 1
MaxSessions == 2

None == <<>>
Some(x) == <<x>>

(***************************************************************************)
(* Characters and strings.                                                 *)
(***************************************************************************)
IsWs(c) == c \in {" ", "\n", "\t"}

Lower(c) ==
    CASE c = "A" -> "a" [] c = "C" -> "c" [] c = "D" -> "d" [] c = "E" -> "e"
      [] c = "H" -> "h" [] c = "I" -> "i" [] c = "K" -> "k" [] c = "L" -> "l"
      [] c = "M" -> "m" [] c = "N" -> "n" [] c = "O" -> "o" [] c = "P" -> "p"
      [] c = "R" -> "r" [] c = "S" -> "s" [] c = "T" -> "t" [] c = "W" -> "w"
      [] c = "Y" -> "y" [] OTHER -> c

toLowerCase(s) == [i \in 1..Len(s) |-> Lower(s[i])]

\* s.substring(i - 1): the text from the 1-based position i on
SubstringFrom(s, i) == SubSeq(s, i, Len(s))

\* pat occurs in s at the 1-based position i (case-sensitively)
OccursAt(s, i, pat) ==
    /\ i >= 1
    /\ i + Len(pat) - 1 <= Len(s)
    /\ \A k \in 1..Len(pat) : s[i + k - 1] = pat[k]

\* pat, given in lower case, occurs in s at i case-insensitively (the /i flag)
OccursAtI(s, i, pat) ==
    /\ i >= 1
    /\ i + Len(pat) - 1 <= Len(s)
    /\ \A k \in 1..Len(pat) : Lower(s[i + k - 1]) = pat[k]

\* String.prototype.includes
includes(s, pat) == \E i \in 1..(Len(s) + 1) : OccursAt(s, i, pat)

Min(S) == CHOOSE x \in S : \A y \in S : x <= y
Max(S) == CHOOSE x \in S : \A y \in S : x >= y

\* String.prototype.trim
trim(s) ==
    LET keep == {i \in 1..Len(s) : ~IsWs(s[i])}
    IN  IF keep = {} THEN <<>> ELSE SubSeq(s, Min(keep), Max(keep))

(***************************************************************************)
(* Messages and sessions (types.ts).                                       *)
(***************************************************************************)
Message(id, role, content, type, status, mode, attachment) ==
    [id |-> id, role |-> role, content |-> content, type |-> type,
     status |-> status, mode |-> mode, sources |-> None,
     attachment |-> attachment]

\* the title of a session that createNewSession has made
NewChat ==
    <<"N","e","w"," ","C","h","a","t">>

\* createdAt is the time of creation, as the id is
ChatSession(id) ==
    [id |-> id, title |-> NewChat, messages |-> <<>>, createdAt |-> id]

SessionIds == {sessions[i].id : i \in DOMAIN sessions}

SessionById(id) == sessions[CHOOSE i \in DOMAIN sessions : sessions[i].id = id]

(***************************************************************************)
(* App: the setSessions updaters.                                          *)
(***************************************************************************)
\* updateSession(sessionId, { messages })
updateSession(ss, sessionId, messages) ==
    [i \in DOMAIN ss |->
        IF ss[i].id = sessionId THEN [ss[i] EXCEPT !.messages = messages]
        ELSE ss[i]]

\* a variant that sets the content to the text of the fragment
FoldChunkOverwrites(m, chunk) ==
    [m EXCEPT !.content = chunk.text,
              !.sources = IF chunk.sources # None THEN chunk.sources
                          ELSE m.sources]

\* the fold of one fragment into the message it belongs to
FoldChunk(m, chunk) ==
    [m EXCEPT !.content = m.content \o chunk.text,
              !.sources = IF chunk.sources # None THEN chunk.sources
                          ELSE m.sources]

streamToSession(ss, sessionId, messageId, chunk) ==
    [i \in DOMAIN ss |->
        IF ss[i].id # sessionId THEN ss[i]
        ELSE [ss[i] EXCEPT !.messages =
                [j \in DOMAIN ss[i].messages |->
                    IF ss[i].messages[j].id # messageId THEN ss[i].messages[j]
                    ELSE FoldChunk(ss[i].messages[j], chunk)]]]

\* { ...m, ...updates } for the three shapes of updates the callers pass
ApplyUpdates(m, u) ==
    [m EXCEPT !.content = IF u.content # None THEN u.content[1] ELSE m.content,
              !.type = IF u.type # None THEN u.type[1] ELSE m.type,
              !.status = IF u.status # None THEN u.status[1] ELSE m.status]

updateMessageInSession(ss, sessionId, messageId, u) ==
    [i \in DOMAIN ss |->
        IF ss[i].id # sessionId THEN ss[i]
        ELSE [ss[i] EXCEPT !.messages =
                [j \in DOMAIN ss[i].messages |->
                    IF ss[i].messages[j].id # messageId THEN ss[i].messages[j]
                    ELSE ApplyUpdates(ss[i].messages[j], u)]]]

NotInProgress(m) == m.status # "in-progress"

\* App.handleCancelGeneration(sessionId)
onCancelGeneration(ss, sessionId) ==
    [i \in DOMAIN ss |->
        IF ss[i].id # sessionId THEN ss[i]
        ELSE [ss[i] EXCEPT !.messages = SelectSeq(ss[i].messages, NotInProgress)]]


(***************************************************************************)
(* ChatView: cleanHtmlContent.                                             *)
(***************************************************************************)
DoctypeWord ==
    <<"<","!","d","o","c","t","y","p","e">>
HtmlGt ==
    <<"h","t","m","l",">">>
HtmlOpen ==
    <<"<","h","t","m","l">>
HtmlClose ==
    <<"<","/","h","t","m","l",">">>
\* the markdown fence of three backquotes; "BQ" stands for the backquote character
Backticks ==
    <<"BQ","BQ","BQ">>
HtmlWord ==
    <<"h","t","m","l">>

\* endMatch.index + 7: the length of "</html>"
CloseTagLen == 7
\* cleanHtmlContent(msg.content).length > 20
PresentationMinLen == 20
\* messagesToProcess.length > 15
HistoryWindow == 15
\* messagesToProcess.length - index < 3
AttachmentWindow == 3

AllWs(s) == \A k \in 1..Len(s) : IsWs(s[k])

\* the length of the longest run of white space of s that starts at i (\s+, \s*)
WsRun(s, i) ==
    Max({n \in 0..(Len(s) - i + 1) : \A k \in i..(i + n - 1) : IsWs(s[k])})

\* the length of the match of /<!doctype\s+html>/i at i; 0 when there is none
DoctypeLen(s, i) ==
    IF ~OccursAtI(s, i, DoctypeWord) THEN 0
    ELSE LET w == WsRun(s, i + Len(DoctypeWord))
         IN  IF w >= 1 /\ OccursAtI(s, i + Len(DoctypeWord) + w, HtmlGt)
             THEN Len(DoctypeWord) + w + Len(HtmlGt)
             ELSE 0

\* /<!doctype\s+html>|<html/i matches at i
StartMatchAt(s, i) == DoctypeLen(s, i) > 0 \/ OccursAtI(s, i, HtmlOpen)

\* a variant that looks for the doctype alone
StartIndexOfDoctype(s) ==
    LET I == {i \in 1..Len(s) : DoctypeLen(s, i) > 0}
    IN  IF I = {} THEN 0 ELSE Min(I)

\* content.match(/<!doctype\s+html>|<html/i): the 1-based position, 0 for no match
StartIndex(s) ==
    LET I == {i \in 1..Len(s) : StartMatchAt(s, i)}
    IN  IF I = {} THEN 0 ELSE Min(I)

\* html.match(/<\/html>/i): the 1-based position, 0 for no match
EndIndex(s) ==
    LET I == {i \in 1..Len(s) : OccursAtI(s, i, HtmlClose)}
    IN  IF I = {} THEN 0 ELSE Min(I)

\* the fence pattern /BQBQBQ(html)?\s*$/i matches at i
FenceAt(s, i) ==
    /\ OccursAt(s, i, Backticks)
    /\ LET rest == SubstringFrom(s, i + Len(Backticks))
       IN  \/ AllWs(rest)
           \/ /\ OccursAtI(rest, 1, HtmlWord)
              /\ AllWs(SubstringFrom(rest, Len(HtmlWord) + 1))

\* a variant whose fence pattern has no end anchor: the first fence marker is
\* removed wherever it stands
StripFenceAnywhere(s) ==
    LET I == {i \in 1..Len(s) : OccursAt(s, i, Backticks)}
    IN  IF I = {} THEN s
        ELSE LET i == Min(I)
                 rest == SubstringFrom(s, i + Len(Backticks))
                 word == IF OccursAtI(rest, 1, HtmlWord) THEN Len(HtmlWord) ELSE 0
                 ws == WsRun(rest, word + 1)
             IN  SubSeq(s, 1, i - 1) \o SubstringFrom(rest, word + ws + 1)

\* html.replace(fence pattern, '')
StripFence(s) ==
    LET I == {i \in 1..Len(s) : FenceAt(s, i)}
    IN  IF I = {} THEN s ELSE SubSeq(s, 1, Min(I) - 1)

\* a variant that cuts before the closing tag instead of after it
CutBeforeClose(html, end) == SubSeq(html, 1, end - 1)

\* html.substring(0, endMatch.index + 7), end being the 1-based position of the match
CutAfterClose(html, end) == SubSeq(html, 1, (end - 1) + CloseTagLen)

cleanHtmlContent(content) ==
    IF content = <<>> THEN <<>>
    ELSE LET start == StartIndex(content)
         IN  IF start = 0 THEN <<>>
             ELSE LET html == SubstringFrom(content, start)
                      end == EndIndex(html)
                  IN  trim(IF end # 0 THEN CutAfterClose(html, end)
                           ELSE StripFence(html))

(***************************************************************************)
(* ChatView: sanitizeHistoryContent.                                       *)
(***************************************************************************)
DataImage ==
    <<"d","a","t","a",":","i","m","a","g","e","/">>
Base64Comma ==
    <<";","b","a","s","e","6","4",",">>
Base64Removed ==
    <<"[","B","a","s","e","6","4"," ","I","m","a","g","e"," ","D","a","t",
      "a"," ","R","e","m","o","v","e","d","]">>
HtmlOmitted ==
    <<"[","P","r","e","s","e","n","t","a","t","i","o","n"," ","H","T","M",
      "L"," ","C","o","d","e"," ","O","m","i","t","t","e","d"," ","t","o",
      " ","S","a","v","e"," ","C","o","n","t","e","x","t","]">>
AttachmentRemoved ==
    <<"[","I","m","a","g","e"," ","a","t","t","a","c","h","m","e","n","t",
      " ","r","e","m","o","v","e","d"," ","t","o"," ","s","a","v","e"," ",
      "c","o","n","t","e","x","t","]">>

\* [a-zA-Z0-9+.-]
IsMimeChar(c) ==
    c \in {"a","b","c","d","e","f","g","h","i","j","k","l","m","n","o","p","q",
           "r","s","t","u","v","w","x","y","z","A","B","C","D","E","F","G","H",
           "I","J","K","L","M","N","O","P","Q","R","S","T","U","V","W","X","Y",
           "Z","0","1","2","3","4","5","6","7","8","9","+",".","-"}

\* [^"'\s)]
IsDataChar(c) == ~IsWs(c) /\ c \notin {"\"", "'", ")"}

MimeRun(s, i) ==
    Max({n \in 0..(Len(s) - i + 1) : \A k \in i..(i + n - 1) : IsMimeChar(s[k])})

DataRun(s, i) ==
    Max({n \in 0..(Len(s) - i + 1) : \A k \in i..(i + n - 1) : IsDataChar(s[k])})

\* the length of the match of /data:image\/[a-zA-Z0-9+.-]+;base64,[^"'\s)]+/ at i;
\* 0 when there is none
Base64Len(s, i) ==
    IF ~OccursAt(s, i, DataImage) THEN 0
    ELSE LET m == MimeRun(s, i + Len(DataImage))
             j == i + Len(DataImage) + m
         IN  IF m >= 1 /\ OccursAt(s, j, Base64Comma)
             THEN LET d == DataRun(s, j + Len(Base64Comma))
                  IN  IF d >= 1
                      THEN Len(DataImage) + m + Len(Base64Comma) + d
                      ELSE 0
             ELSE 0

\* content.replace(/data:image\/...;base64,.../g, "[Base64 Image Data Removed]"),
\* scanning from the 1-based position i
RECURSIVE RemoveBase64From(_, _)
RemoveBase64From(s, i) ==
    IF i > Len(s) THEN <<>>
    ELSE LET n == Base64Len(s, i)
         IN  IF n > 0 THEN Base64Removed \o RemoveBase64From(s, i + n)
             ELSE <<s[i]>> \o RemoveBase64From(s, i + 1)

\* clean.toLowerCase().lastIndexOf('</html>'), 1-based; 0 stands for -1
LastCloseIndex(s) ==
    LET I == {i \in 1..Len(s) : OccursAt(toLowerCase(s), i, HtmlClose)}
    IN  IF I = {} THEN 0 ELSE Max(I)

\* step 2 of sanitizeHistoryContent: the HTML block replaced by the placeholder
OmitHtml(clean) ==
    LET start == StartIndex(clean)
        \* lastIndexOf(...) + 7 as a 0-based offset
        afterIndex == (LastCloseIndex(clean) - 1) + CloseTagLen
    IN  IF start # 0 /\ afterIndex > start - 1
        THEN SubSeq(clean, 1, start - 1)
               \o <<"\n", "\n">> \o HtmlOmitted \o <<"\n", "\n">>
               \o SubstringFrom(clean, afterIndex + 1)
        ELSE clean

\* a variant that leaves the content of the preserved message as it is
sanitizeSkipsPreserved(content, preserveFullHtml) ==
    IF content = <<>> THEN <<>>
    ELSE IF preserveFullHtml THEN content
    ELSE OmitHtml(RemoveBase64From(content, 1))

\* a variant that omits the document of the preserved message too
sanitizeOmitsAlways(content, preserveFullHtml) ==
    IF content = <<>> THEN <<>>
    ELSE OmitHtml(RemoveBase64From(content, 1))

sanitizeHistoryContent(content, preserveFullHtml) ==
    IF content = <<>> THEN <<>>
    ELSE LET clean == RemoveBase64From(content, 1)
         IN  IF ~preserveFullHtml THEN OmitHtml(clean) ELSE clean

(***************************************************************************)
(* ChatView.handleSendMessage: the history sent with a request.            *)
(***************************************************************************)
IsPresentation(msg) ==
    msg.role = "assistant" /\ Len(cleanHtmlContent(msg.content)) > PresentationMinLen

\* the id of the last assistant message that holds a presentation; 0 is null
LastPresentationId(messages) ==
    LET I == {i \in DOMAIN messages : IsPresentation(messages[i])}
    IN  IF I = {} THEN 0 ELSE messages[Max(I)].id

\* a variant that keeps the whole list
MessagesUnwindowed(messages) == messages

\* messagesToProcess
MessagesToProcess(messages) ==
    IF Len(messages) > HistoryWindow
    THEN SubSeq(messages, Len(messages) - HistoryWindow + 1, Len(messages))
    ELSE messages

\* the attachment part of the message at the 0-based index, of n messages
AttachmentPart(m, index, n) ==
    IF m.attachment = None THEN <<>>
    ELSE IF n - index < AttachmentWindow
         THEN <<[kind |-> "inlineData", value |-> m.attachment[1]]>>
         ELSE <<[kind |-> "text", value |-> AttachmentRemoved]>>

TextPart(m, lastPresentationId) ==
    IF m.content = <<>> THEN <<>>
    ELSE <<[kind |-> "text",
            value |-> sanitizeHistoryContent(m.content, m.id = lastPresentationId)]>>

\* the Content of one message; of is the id of the message it was built from
ContentOf(m, index, n, lastPresentationId) ==
    [role |-> IF m.role = "user" THEN "user" ELSE "model",
     parts |-> AttachmentPart(m, index, n) \o TextPart(m, lastPresentationId),
     of |-> m.id]

\* a variant of the filter that keeps every unit
KeepsEveryUnit(h) == TRUE

HasParts(h) == Len(h.parts) > 0

BuildHistory(messages) ==
    LET lastPresentationId == LastPresentationId(messages)
        toProcess == MessagesToProcess(messages)
        n == Len(toProcess)
    IN  SelectSeq([k \in 1..n |-> ContentOf(toProcess[k], k - 1, n, lastPresentationId)],
                  HasParts)


(***************************************************************************)
(* ChatView.handleSendMessage and the request it starts.                   *)
(*                                                                         *)
(* A request is one call of handleSendMessage.  Its record holds what the  *)
(* call's closure holds: the session it was sent in (session.id), its user *)
(* message, the id of its assistant message, the message list it read      *)
(* (session.messages), the history it built, its AbortController's         *)
(* signal.aborted, the chunks it has received, and where the call stands:  *)
(*   "image"  awaiting generateImage                                       *)
(*   "stream" awaiting the next fragment of the stream                     *)
(*   "done"   the finally block has run and the call has returned          *)
(*   "lost"   the page was reloaded while the call was awaiting             *)
(* Date.now() is taken to give a fresh id at every call: request r's user  *)
(* message has id 2r - 1 and its assistant message id 2r.                  *)
(***************************************************************************)
KwPresentation ==
    <<"p","r","e","s","e","n","t","a","t","i","o","n">>
KwSlide ==
    <<"s","l","i","d","e">>
KwDeck ==
    <<"d","e","c","k">>
KwPpt ==
    <<"p","p","t">>
KwPowerpoint ==
    <<"p","o","w","e","r","p","o","i","n","t">>

presentationKeywords == {KwPresentation, KwSlide, KwDeck, KwPpt, KwPowerpoint}

\* a variant with no detection of keywords
ModeAsSelected(selected, trimmedInput) == selected

\* modeToUse
ModeToUse(selected, trimmedInput) ==
    IF /\ selected = "text"
       /\ \E kw \in presentationKeywords : includes(toLowerCase(trimmedInput), kw)
    THEN "presentation"
    ELSE selected

\* the inputs of the model
Prompts == {<<"h", "i">>}
ModeChoices == {"text", "image"}
SourceA == [uri |-> "a", title |-> "A"]
SourceA2 == [uri |-> "a", title |-> "A again"]
SourceB == [uri |-> "b", title |-> "B"]
SourceC == [uri |-> "c", title |-> "C"]
\* the chunks the provider sends in Spec: text deltas
Chunks ==
    {[text |-> <<"t">>, sources |-> None]}
\* the chunks the provider sends in SpecFold: a text delta or none, with no
\* grounding sources or one of two batches that share the uri "a"
FoldChunks ==
    {[text |-> t, sources |-> b] :
        t \in {<<>>, <<"t">>},
        b \in {None, Some(<<SourceA, SourceB>>), Some(<<SourceA2, SourceC>>)}}
ErrorMessages == {<<"F", "a", "i", "l", "e", "d">>}
ImageUrls == {<<"i", "m", "g">>}

NoUpdates == [content |-> None, type |-> None, status |-> None]

\* a variant of the finally block that does not mark the assistant message
FinallyKeepsStatus(r, ss) ==
    /\ isLoading' = FALSE
    /\ sessions' = ss
    /\ abortControllerRef' = 0
    /\ requests' = [requests EXCEPT ![r].pc = "done", ![r].pre = <<>>,
                                    ![r].history = <<>>, ![r].received = <<>>,
                                    ![r].allSources = <<>>]

\* the finally block of handleSendMessage, run on the session list ss that the
\* try and catch blocks left
Finally(r, ss) ==
    /\ isLoading' = FALSE
    /\ sessions' =
         IF ~requests[r].aborted
         THEN updateMessageInSession(ss, requests[r].sid, requests[r].mid,
                                     [NoUpdates EXCEPT !.status = Some("complete")])
         ELSE ss
    /\ abortControllerRef' = 0
    \* the call returns: its closure (the list it read, its history) is dropped
    /\ requests' = [requests EXCEPT ![r].pc = "done", ![r].pre = <<>>,
                                    ![r].history = <<>>, ![r].received = <<>>,
                                    ![r].allSources = <<>>]

\* a variant of the catch block that leaves the message's type alone
CatchKeepsType(r, ss, message) ==
    IF ~requests[r].aborted
    THEN updateMessageInSession(ss, requests[r].sid, requests[r].mid,
                                [content |-> Some(message), type |-> None,
                                 status |-> Some("complete")])
    ELSE ss

\* a variant of the catch block that does not look at the signal
CatchIgnoresAbort(r, ss, message) ==
    updateMessageInSession(ss, requests[r].sid, requests[r].mid,
                           [content |-> Some(message), type |-> Some("error"),
                            status |-> Some("complete")])

\* the catch block
Catch(r, ss, message) ==
    IF ~requests[r].aborted
    THEN updateMessageInSession(ss, requests[r].sid, requests[r].mid,
                                [content |-> Some(message), type |-> Some("error"),
                                 status |-> Some("complete")])
    ELSE ss

\* handleSendMessage(customInput, customMode) up to its first await
handleSendMessage(textToSend, selected) ==
    LET trimmedInput == trim(textToSend)
        r == Len(requests) + 1
        modeToUse == ModeToUse(selected, trimmedInput)
    IN  /\ activeSessionId \in SessionIds
        /\ trimmedInput # <<>>
        /\ ~isLoading
        /\ LET session == SessionById(activeSessionId)
               userMessage == Message(2 * r - 1, "user", trimmedInput, "text",
                                      "undefined", modeToUse, None)
               assistantMessage == Message(2 * r, "assistant", <<>>, "text",
                                           "in-progress", modeToUse, None)
           IN  /\ isLoading' = TRUE
               /\ abortControllerRef' = r
               /\ sessions' = updateSession(sessions, session.id,
                                 session.messages \o <<userMessage, assistantMessage>>)
               /\ requests' = Append(requests,
                     [sid |-> session.id, userMessage |-> userMessage,
                      mid |-> assistantMessage.id, pre |-> session.messages,
                      aborted |-> FALSE,
                      pc |-> IF modeToUse = "image" THEN "image" ELSE "stream",
                      received |-> <<>>, allSources |-> <<>>,
                      history |-> IF modeToUse = "image" THEN <<>>
                                  ELSE BuildHistory(session.messages)])
        /\ UNCHANGED <<activeSessionId, buffer, output>>

\* generateImage resolves
ImageReturns(r, imageUrl) ==
    /\ r \in DOMAIN requests
    /\ requests[r].pc = "image"
    /\ Finally(r,
               IF requests[r].aborted THEN sessions
               ELSE updateMessageInSession(sessions, requests[r].sid, requests[r].mid,
                        [content |-> Some(imageUrl), type |-> Some("image"),
                         status |-> Some("complete")]))
    /\ UNCHANGED <<activeSessionId, buffer, output>>

\* the body of the for await loop on a fragment the generator yielded
LoopBody(ss, r, yielded) ==
    IF yielded.text # <<>> \/ yielded.sources # None
    THEN streamToSession(ss, requests[r].sid, requests[r].mid, yielded)
    ELSE ss

\* a variant of the collection that keeps every source, known or not
CollectEverySource(allSources, chunkSources) ==
    allSources \o chunkSources

\* generateTextWithSearchStream: chunkSources.forEach pushes a source with a
\* uri that allSources does not hold yet
RECURSIVE CollectSources(_, _)
CollectSources(allSources, chunkSources) ==
    IF chunkSources = <<>> THEN allSources
    ELSE CollectSources(
             IF /\ chunkSources[1].uri # ""
                /\ ~\E k \in DOMAIN allSources : allSources[k].uri = chunkSources[1].uri
             THEN Append(allSources, chunkSources[1])
             ELSE allSources,
             Tail(chunkSources))

\* the provider sends a chunk: the generator yields its text, the loop folds
\* it (or finds the request aborted and breaks), and the generator collects
\* the grounding sources of the chunk
FragmentArrives(r, chunk) ==
    /\ r \in DOMAIN requests
    /\ requests[r].pc = "stream"
    /\ IF chunk.text # <<>> /\ requests[r].aborted
       THEN Finally(r, sessions)
       ELSE /\ sessions' =
                 IF chunk.text # <<>>
                 THEN LoopBody(sessions, r, [text |-> chunk.text, sources |-> None])
                 ELSE sessions
            /\ requests' =
                 [requests EXCEPT
                    ![r].received = Append(@, chunk),
                    ![r].allSources =
                        IF chunk.sources = None THEN @
                        ELSE CollectSources(@, chunk.sources[1])]
            /\ UNCHANGED <<isLoading, abortControllerRef>>
    /\ UNCHANGED <<activeSessionId, buffer, output>>

\* the provider's stream ends: the generator yields the sources it collected,
\* if any, the loop folds them unless the request is aborted, and is left
StreamEnds(r) ==
    /\ r \in DOMAIN requests
    /\ requests[r].pc = "stream"
    /\ Finally(r,
               IF requests[r].allSources # <<>> /\ ~requests[r].aborted
               THEN LoopBody(sessions, r,
                             [text |-> <<>>, sources |-> Some(requests[r].allSources)])
               ELSE sessions)
    /\ UNCHANGED <<activeSessionId, buffer, output>>

\* generateImage rejects, or starting or reading the stream throws
ProviderThrows(r, message) ==
    /\ r \in DOMAIN requests
    /\ requests[r].pc \in {"image", "stream"}
    /\ Finally(r, Catch(r, sessions, message))
    /\ UNCHANGED <<activeSessionId, buffer, output>>

\* ChatView.handleCancelGeneration, the handler of the control shown while isLoading
handleCancelGeneration ==
    /\ activeSessionId \in SessionIds
    /\ isLoading
    /\ requests' =
         IF abortControllerRef # 0
         THEN [requests EXCEPT ![abortControllerRef].aborted = TRUE]
         ELSE requests
    /\ isLoading' = FALSE
    /\ sessions' = onCancelGeneration(sessions, activeSessionId)
    /\ UNCHANGED <<activeSessionId, abortControllerRef, buffer, output>>

(***************************************************************************)
(* App: the sidebar.                                                       *)
(***************************************************************************)
\* Date.now(): a time later than every time the state holds
DateNow ==
    Max({0} \cup SessionIds \cup {requests[r].sid : r \in DOMAIN requests}) + 1

\* Date.now() gives the new session a fresh id
createNewSession ==
    /\ LET newSession == ChatSession(DateNow)
       IN  /\ sessions' = <<newSession>> \o sessions
           /\ activeSessionId' = newSession.id
    /\ UNCHANGED <<isLoading, abortControllerRef, requests, buffer, output>>

\* the onClick of a session of the sidebar
setActiveSessionId(id) ==
    /\ id \in SessionIds
    /\ id # activeSessionId
    /\ activeSessionId' = id
    /\ UNCHANGED <<sessions, isLoading, abortControllerRef, requests, buffer, output>>

\* the page is reloaded while a call of handleSendMessage is awaiting: the
\* calls are lost with the page, ChatView mounts with its initial state, and
\* the load effect reads back what the save effect wrote, the session list
\* and the active session as they are
Reload ==
    /\ \E r \in DOMAIN requests : requests[r].pc \in {"image", "stream"}
    /\ requests' =
         [r \in DOMAIN requests |->
             IF requests[r].pc \in {"image", "stream"}
             THEN [requests[r] EXCEPT !.pc = "lost", !.pre = <<>>, !.history = <<>>,
                                      !.received = <<>>, !.allSources = <<>>]
             ELSE requests[r]]
    /\ isLoading' = FALSE
    /\ abortControllerRef' = 0
    /\ UNCHANGED <<sessions, activeSessionId, buffer, output>>

\* a variant of the filter that removes no session
WithoutNone(ss, id) == ss

\* sessions.filter(s => s.id !== id)
RECURSIVE WithoutSession(_, _)
WithoutSession(ss, id) ==
    IF ss = <<>> THEN <<>>
    ELSE (IF ss[1].id = id THEN <<>> ELSE <<ss[1]>>) \o WithoutSession(Tail(ss), id)

\* handleDeleteSession(sessionIdToDelete), the user having confirmed
handleDeleteSession(sessionIdToDelete) ==
    /\ sessionIdToDelete \in SessionIds
    /\ LET newSessions == WithoutSession(sessions, sessionIdToDelete)
       IN  IF newSessions = <<>>
           THEN createNewSession
           ELSE /\ activeSessionId' =
                     IF activeSessionId = sessionIdToDelete THEN newSessions[1].id
                     ELSE activeSessionId
                /\ sessions' = newSessions
                /\ UNCHANGED <<isLoading, abortControllerRef, requests, buffer, output>>

\* a variant that leaves the list in the order of the session list
SortAsListed(ss) == ss

\* [...ss].sort((a, b) => time(a.createdAt) - time(b.createdAt)), a stable
\* sort: a session stands after those created before it and after those
\* created at the same time that stood before it
SortOldestFirst(ss) ==
    LET before(i) == {j \in DOMAIN ss :
                        \/ ss[j].createdAt < ss[i].createdAt
                        \/ ss[j].createdAt = ss[i].createdAt /\ j < i}
    IN  [k \in DOMAIN ss |->
            ss[CHOOSE i \in DOMAIN ss : Cardinality(before(i)) = k - 1]]

\* ss.sort((a, b) => time(b.createdAt) - time(a.createdAt)), a stable sort
SortNewestFirst(ss) ==
    LET before(i) == {j \in DOMAIN ss :
                        \/ ss[j].createdAt > ss[i].createdAt
                        \/ ss[j].createdAt = ss[i].createdAt /\ j < i}
    IN  [k \in DOMAIN ss |->
            ss[CHOOSE i \in DOMAIN ss : Cardinality(before(i)) = k - 1]]

\* the save effect when localStorage.setItem throws a QuotaExceededError: the
\* catch block removes the oldest session
SaveQuotaExceeded ==
    /\ LET sortedSessions == SortOldestFirst(sessions)
       IN  IF Len(sortedSessions) > 0
           THEN LET oldestSessionId == sortedSessions[1].id
                    prunedSessions == WithoutSession(sessions, oldestSessionId)
                IN  IF activeSessionId = oldestSessionId
                    THEN \* prunedSessions.sort sorts the array that is then set
                         LET newestFirst == SortNewestFirst(prunedSessions)
                         IN  /\ activeSessionId' =
                                   IF Len(newestFirst) > 0 THEN newestFirst[1].id ELSE 0
                             /\ sessions' = newestFirst
                    ELSE /\ sessions' = prunedSessions
                         /\ UNCHANGED activeSessionId
           ELSE UNCHANGED <<sessions, activeSessionId>>
    /\ UNCHANGED <<isLoading, abortControllerRef, requests, buffer, output>>

\* the state once App has mounted on an empty store: the load effect has made
\* the first session
Init ==
    /\ sessions = <<ChatSession(1)>>
    /\ activeSessionId = 1
    /\ isLoading = FALSE
    /\ abortControllerRef = 0
    /\ requests = <<>>
    /\ buffer = <<>>
    /\ output = <<>>

\* the bounds: at most MaxRequests calls of handleSendMessage, MaxFragments
\* fragments a stream, MaxSessions sessions
Next ==
    \/ /\ Len(requests) < MaxRequests
       /\ \E textToSend \in Prompts, selected \in ModeChoices :
             handleSendMessage(textToSend, selected)
    \/ \E r \in 1..MaxRequests, imageUrl \in ImageUrls : ImageReturns(r, imageUrl)
    \/ \E r \in DOMAIN requests, chunk \in Chunks :
          /\ Len(requests[r].received) < MaxFragments
          /\ FragmentArrives(r, chunk)
    \/ \E r \in 1..MaxRequests : StreamEnds(r)
    \/ \E r \in 1..MaxRequests, message \in ErrorMessages : ProviderThrows(r, message)
    \/ handleCancelGeneration
    \/ (Len(sessions) < MaxSessions /\ createNewSession)
    \/ \E id \in 1..MaxSessions : setActiveSessionId(id)

Spec == Init /\ [][Next]_vars

(***************************************************************************)
(* SpecReload: the requests with no cancellation, and the page reloaded     *)
(* while a request is awaiting.                                            *)
(***************************************************************************)
NextReload ==
    \/ /\ Len(requests) < MaxRequests
       /\ \E textToSend \in Prompts, selected \in ModeChoices :
             handleSendMessage(textToSend, selected)
    \/ \E r \in 1..MaxRequests, imageUrl \in ImageUrls : ImageReturns(r, imageUrl)
    \/ \E r \in DOMAIN requests, chunk \in Chunks :
          /\ Len(requests[r].received) < MaxFragments
          /\ FragmentArrives(r, chunk)
    \/ \E r \in 1..MaxRequests : StreamEnds(r)
    \/ \E r \in 1..MaxRequests, message \in ErrorMessages : ProviderThrows(r, message)
    \/ (Len(sessions) < MaxSessions /\ createNewSession)
    \/ \E id \in 1..MaxSessions : setActiveSessionId(id)
    \/ Reload

SpecReload == Init /\ [][NextReload]_vars


(***************************************************************************)
(* SpecFold: one text request and its stream, with citations.              *)
(***************************************************************************)
FoldFragments == 3

NextFold ==
    \/ /\ requests = <<>>
       /\ \E textToSend \in Prompts : handleSendMessage(textToSend, "text")
    \/ \E r \in DOMAIN requests, chunk \in FoldChunks :
          /\ Len(requests[r].received) < FoldFragments
          /\ FragmentArrives(r, chunk)
    \/ \E r \in DOMAIN requests : StreamEnds(r)

SpecFold == Init /\ [][NextFold]_vars

(***************************************************************************)
(* SpecExtract: cleanHtmlContent on a buffer, as MessageItem calls it on   *)
(* message.content at every render.  The buffer is a document between a    *)
(* prefix and a suffix, or the first k characters of a document.           *)
(***************************************************************************)
MaxBodyParts == 2

DoctypeLower ==
    <<"<","!","d","o","c","t","y","p","e"," ","h","t","m","l",">">>
DoctypeUpper ==
    <<"<","!","D","O","C","T","Y","P","E"," ","h","t","m","l",">">>
PieceHtml ==
    <<"<","h","t","m","l",">">>
PieceText ==
    <<"x"," ","y">>
PieceFence ==
    <<"BQ","BQ","BQ","h","t","m","l","\n">>
PieceSpace ==
    <<" ">>
PrefixTalk ==
    <<"H","i",":"," ">>
PrefixPartial ==
    <<"<","!","d","o","c","t","y","p","e"," ">>
SuffixFence ==
    <<"\n","BQ","BQ","BQ">>
SuffixTalk ==
    <<" ","b","y","e">>
SuffixPartial ==
    <<"<","/","h","t","m">>

\* a comment that holds the text of a closing tag
PieceComment ==
    <<"<","!","-","-">> \o HtmlClose \o <<"-","-",">">>

BodyPieces == {PieceHtml, PieceText, PieceFence, PieceSpace, PieceComment}

RECURSIVE Concat(_)
Concat(parts) == IF parts = <<>> THEN <<>> ELSE Head(parts) \o Concat(Tail(parts))

\* the documents: a doctype, at most MaxBodyParts pieces, and the closing tag
Documents ==
    {d \o Concat(body) \o HtmlClose :
        d \in {DoctypeLower, DoctypeUpper},
        body \in UNION {[1..n -> BodyPieces] : n \in 0..MaxBodyParts}}

\* text around a document that holds no start marker and no closing tag
Prefixes == {<<>>, PrefixTalk, PieceFence, PrefixPartial}
Suffixes == {<<>>, SuffixFence, SuffixTalk, SuffixPartial}

ExtractInputs ==
    {[kind |-> "wrap", prefix |-> a, doc |-> d, suffix |-> z, text |-> a \o d \o z] :
        a \in Prefixes, d \in Documents, z \in Suffixes}
    \cup
    UNION {{[kind |-> "cut", prefix |-> <<>>, doc |-> d, suffix |-> <<>>,
             text |-> SubSeq(d, 1, k)] : k \in 0..Len(d)} : d \in Documents}

InitExtract ==
    /\ sessions = <<ChatSession(1)>>
    /\ activeSessionId = 1
    /\ isLoading = FALSE
    /\ abortControllerRef = 0
    /\ requests = <<>>
    /\ buffer \in ExtractInputs
    /\ output = None

Extract ==
    /\ output = None
    /\ output' = Some(cleanHtmlContent(buffer.text))
    /\ UNCHANGED <<appVars, buffer>>

SpecExtract == InitExtract /\ [][Extract]_vars

(***************************************************************************)
(* SpecHistory: handleSendMessage in a session that holds a stored         *)
(* conversation: text turns, with up to two messages of another kind       *)
(* among them.                                                             *)
(***************************************************************************)
MaxMessages == 17

TextHi ==
    <<"h","i">>
TextOk ==
    <<"o","k">>
\* a finished presentation, with talk around it
DeckContent ==
    <<"D","e","c","k",":"," ","<","!","d","o","c","t","y","p","e"," ","h",
      "t","m","l",">","<","h","t","m","l",">","x","<","/","h","t","m","l",
      ">"," ","o","k">>
\* a presentation whose stream stopped before the closing tag
OpenDeckContent ==
    <<"S","l","i","d","e","s",":"," ","<","h","t","m","l",">","<","b","o",
      "d","y",">","o","n","e"," ","t","w","o"," ","t","h","r","e","e">>

Photo == [data |-> "AAAA", mimeType |-> "image/png"]

SpecialKinds == {"deck", "open", "photo"}

\* the stored message at position i, with an id of its own
StoredMessage(kind, i) ==
    Message(100 + i,
             IF kind = "photo" \/ (kind = "text" /\ i % 2 = 1) THEN "user"
             ELSE "assistant",
             CASE kind = "deck" -> DeckContent
               [] kind = "open" -> OpenDeckContent
               [] kind = "photo" -> TextHi
               [] OTHER -> IF i % 2 = 1 THEN TextHi ELSE TextOk,
             "text",
             IF kind = "photo" \/ (kind = "text" /\ i % 2 = 1) THEN "undefined"
             ELSE "complete",
             "text",
             IF kind = "photo" THEN Some(Photo) ELSE None)

StoredConversations ==
    {[i \in 1..n |->
        IF i = p THEN StoredMessage(kp, i)
        ELSE IF i = q THEN StoredMessage(kq, i)
        ELSE StoredMessage("text", i)] :
        <<n, p, q, kp, kq>> \in
            {t \in (0..MaxMessages) \X (0..MaxMessages) \X (0..MaxMessages)
                     \X SpecialKinds \X SpecialKinds :
                /\ t[2] <= t[1] /\ t[3] <= t[1]
                /\ (t[2] < t[3] \/ t[3] = 0)
                /\ (t[2] = 0 => t[3] = 0 /\ t[4] = "deck")
                /\ (t[3] = 0 => t[5] = "deck")}}

InitHistory ==
    /\ \E messages \in StoredConversations :
          sessions = <<[ChatSession(1) EXCEPT !.messages = messages]>>
    /\ activeSessionId = 1
    /\ isLoading = FALSE
    /\ abortControllerRef = 0
    /\ requests = <<>>
    /\ buffer = <<>>
    /\ output = <<>>

NextHistory ==
    /\ requests = <<>>
    /\ \E textToSend \in Prompts : handleSendMessage(textToSend, "text")

SpecHistory == InitHistory /\ [][NextHistory]_vars


(***************************************************************************)
(* SpecCancel: the requests of one session with cancellation: a cancelled  *)
(* request reaches its finally block while a later request is running.     *)
(***************************************************************************)
CancelRequests == 3

NextCancel ==
    \/ /\ Len(requests) < CancelRequests
       /\ \E textToSend \in Prompts : handleSendMessage(textToSend, "text")
    \/ \E r \in DOMAIN requests, chunk \in Chunks :
          /\ Len(requests[r].received) < MaxFragments
          /\ FragmentArrives(r, chunk)
    \/ \E r \in 1..CancelRequests : StreamEnds(r)
    \/ \E r \in 1..CancelRequests, message \in ErrorMessages : ProviderThrows(r, message)
    \/ handleCancelGeneration

SpecCancel == Init /\ [][NextCancel]_vars

(***************************************************************************)
(* SpecDelete and SpecQuota: the session list under the sidebar, one       *)
(* request, and the deletion of a session (SpecDelete) or the eviction of  *)
(* the oldest session by the save effect (SpecQuota).                      *)
(***************************************************************************)
StoreSessions == 4

NextSidebar ==
    \/ /\ requests = <<>>
       /\ \E textToSend \in Prompts : handleSendMessage(textToSend, "text")
    \/ \E r \in DOMAIN requests : StreamEnds(r)
    \/ (DateNow <= StoreSessions /\ createNewSession)
    \/ \E id \in 1..StoreSessions : setActiveSessionId(id)

NextDelete ==
    \/ NextSidebar
    \/ /\ (Len(sessions) > 1 \/ DateNow <= StoreSessions)
       /\ \E id \in 1..StoreSessions : handleDeleteSession(id)

SpecDelete == Init /\ [][NextDelete]_vars

NextQuota ==
    \/ NextSidebar
    \/ (sessions # <<>> /\ SaveQuotaExceeded)

SpecQuota == Init /\ [][NextQuota]_vars

(***************************************************************************)
(* SpecLoad: the load effect of App on the items localStorage holds.       *)
(*                                                                         *)
(* The item chatSessions is described by what the effect does with it:     *)
(*   t       "missing" (getItem gives null), "empty" (the text ""),        *)
(*           "unparsable" (JSON.parse throws), or the type of the value    *)
(*           JSON.parse gives: "null", "number", "boolean", "string",      *)
(*           "object", "array"                                             *)
(*   length  what .length gives on the value; Undefined for undefined      *)
(*   items   the sessions of an array of sessions                          *)
(* The item activeSessionId is a session id, or 0 when it is missing.      *)
(***************************************************************************)
Undefined == -1

MaxStored == 3

StoredSession(i) ==
    IF i = 1
    THEN [ChatSession(i) EXCEPT !.messages =
             <<Message(1, "user", TextHi, "text", "undefined", "text", None)>>]
    ELSE ChatSession(i)

\* the lists the save effect has written: newest first
StoredLists ==
    {[k \in 1..n |-> StoredSession(n + 1 - k)] : n \in 0..MaxStored}

StoredValues ==
    {[t |-> t, length |-> Undefined, items |-> <<>>] :
        t \in {"missing", "empty", "unparsable", "null", "number", "boolean"}}
    \cup {[t |-> "string", length |-> n, items |-> <<>>] : n \in {0, 2}}
    \cup {[t |-> "object", length |-> n, items |-> <<>>] : n \in {Undefined, 1}}
    \cup {[t |-> "array", length |-> Len(l), items |-> l] : l \in StoredLists}

StoredItems ==
    {[kind |-> "stored", chatSessions |-> v, activeSessionId |-> a] :
        v \in StoredValues, a \in 0..(MaxStored + 1)}

\* lines 49-57: the value of loadedSessions after the try block
LoadedSessions(item) ==
    IF item.t \in {"missing", "empty", "unparsable"}
    THEN [t |-> "array", length |-> 0, items |-> <<>>]
    ELSE item

\* the load effect raises a TypeError, or leaves a value in sessions on which
\* the next render of App raises one (sessions.find is not a function):
\*   null.length; loadedSessions.some and loadedSessions[0].id on a value
\*   that is not an array
LoadRaises(loaded) ==
    \/ loaded.t = "null"
    \/ loaded.length > 0 /\ loaded.t # "array"

\* the load effect, run once at mount
LoadEffect ==
    /\ buffer # <<>>
    /\ buffer.kind = "stored"
    /\ output = None
    /\ LET loadedSessions == LoadedSessions(buffer.chatSessions)
           savedActiveId == buffer.activeSessionId
       IN  IF LoadRaises(loadedSessions)
           THEN /\ output' = Some("TypeError")
                /\ UNCHANGED <<sessions, activeSessionId>>
           ELSE /\ output' = Some("mounted")
                /\ IF loadedSessions.length > 0
                   THEN /\ sessions' = loadedSessions.items
                        /\ activeSessionId' =
                              IF /\ savedActiveId # 0
                                 /\ \E i \in DOMAIN loadedSessions.items :
                                        loadedSessions.items[i].id = savedActiveId
                              THEN savedActiveId
                              ELSE loadedSessions.items[1].id
                   ELSE LET newSession == ChatSession(DateNow)
                        IN  /\ sessions' = <<newSession>> \o sessions
                            /\ activeSessionId' = newSession.id
    /\ UNCHANGED <<isLoading, abortControllerRef, requests, buffer>>

InitLoad ==
    /\ sessions = <<>>
    /\ activeSessionId = 0
    /\ isLoading = FALSE
    /\ abortControllerRef = 0
    /\ requests = <<>>
    /\ buffer \in StoredItems
    /\ output = None

SpecLoad == InitLoad /\ [][LoadEffect]_vars

(***************************************************************************)
(* SpecRedact: the history of a text request sent in a stored conversation *)
(* whose messages hold inline image data, inside and outside a             *)
(* presentation.                                                           *)
(***************************************************************************)
RedactMessages == 3

\* an inline image: data:image/png;base64,AB
UriText ==
    DataImage \o <<"p","n","g">> \o Base64Comma \o <<"A","B">>
\* a message that quotes an inline image
UriContent ==
    <<"s","e","e"," ">> \o UriText \o <<" ","o","k">>
DeckHead ==
    <<"D","e","c","k",":"," ","<","!","d","o","c","t","y","p","e"," ","h",
      "t","m","l",">","<","h","t","m","l",">","<","i","m","g"," ","s","r",
      "c","=","'">>
DeckFoot ==
    <<"'",">","<","/","h","t","m","l",">"," ","o","k">>
\* a presentation that embeds an inline image
DeckUriContent == DeckHead \o UriText \o DeckFoot

RedactKinds == {"text", "uri", "deck", "deckuri"}

RedactMessage(kind, i) ==
    Message(100 + i,
            IF kind \in {"text", "uri"} /\ i % 2 = 1 THEN "user" ELSE "assistant",
            CASE kind = "uri" -> UriContent
              [] kind = "deck" -> DeckContent
              [] kind = "deckuri" -> DeckUriContent
              [] OTHER -> TextHi,
            "text",
            IF kind \in {"text", "uri"} /\ i % 2 = 1 THEN "undefined" ELSE "complete",
            "text",
            None)

RedactConversations ==
    UNION {{[i \in 1..n |-> RedactMessage(kinds[i], i)] : kinds \in [1..n -> RedactKinds]} :
              n \in 0..RedactMessages}

InitRedact ==
    /\ \E messages \in RedactConversations :
          sessions = <<[ChatSession(1) EXCEPT !.messages = messages]>>
    /\ activeSessionId = 1
    /\ isLoading = FALSE
    /\ abortControllerRef = 0
    /\ requests = <<>>
    /\ buffer = <<>>
    /\ output = <<>>

NextRedact ==
    /\ requests = <<>>
    /\ \E textToSend \in Prompts : handleSendMessage(textToSend, "text")

SpecRedact == InitRedact /\ [][NextRedact]_vars

(***************************************************************************)
(* SpecParts: the history of a text request sent in a stored conversation  *)
(* whose messages may have no content, with or without an attachment.      *)
(***************************************************************************)
PartMessages == 4

PartKinds == {"text", "empty", "photoonly", "photo"}

\* the stored message at position i: an assistant message whose stream gave
\* no text ("empty"), or a user message sent with an attachment and no text
\* ("photoonly") or with both ("photo")
PartMessage(kind, i) ==
    Message(100 + i,
            IF kind = "empty" \/ (kind = "text" /\ i % 2 = 0) THEN "assistant"
            ELSE "user",
            IF kind \in {"empty", "photoonly"} THEN <<>>
            ELSE IF i % 2 = 1 THEN TextHi ELSE TextOk,
            "text",
            IF kind = "empty" \/ (kind = "text" /\ i % 2 = 0) THEN "complete"
            ELSE "undefined",
            "text",
            IF kind \in {"photoonly", "photo"} THEN Some(Photo) ELSE None)

PartConversations ==
    UNION {{[i \in 1..n |-> PartMessage(kinds[i], i)] : kinds \in [1..n -> PartKinds]} :
              n \in 0..PartMessages}

InitParts ==
    /\ \E messages \in PartConversations :
          sessions = <<[ChatSession(1) EXCEPT !.messages = messages]>>
    /\ activeSessionId = 1
    /\ isLoading = FALSE
    /\ abortControllerRef = 0
    /\ requests = <<>>
    /\ buffer = <<>>
    /\ output = <<>>

NextParts ==
    /\ requests = <<>>
    /\ \E textToSend \in Prompts : handleSendMessage(textToSend, "text")

SpecParts == InitParts /\ [][NextParts]_vars

(***************************************************************************)
(* SpecMarker: cleanHtmlContent on a buffer made of a few pieces of text:  *)
(* start markers in several spellings, a start marker cut short, a closing *)
(* tag, a fence and plain text.                                            *)
(***************************************************************************)
MarkerPieces == 3

HtmlOpenUpper ==
    <<"<","H","T","M","L">>
\* a doctype whose white space is a line break and a tab
DoctypeSpread ==
    <<"<","!","d","o","c","t","y","p","e","\n","\t","h","t","m","l",">">>

BufferPieces ==
    {HtmlOpen, HtmlOpenUpper, DoctypeUpper, DoctypeSpread, PrefixPartial,
     HtmlClose, Backticks, PrefixTalk, PieceSpace}

MarkerInputs ==
    {[kind |-> "pieces", text |-> Concat(pieces)] :
        pieces \in UNION {[1..n -> BufferPieces] : n \in 0..MarkerPieces}}

InitMarker ==
    /\ sessions = <<ChatSession(1)>>
    /\ activeSessionId = 1
    /\ isLoading = FALSE
    /\ abortControllerRef = 0
    /\ requests = <<>>
    /\ buffer \in MarkerInputs
    /\ output = None

SpecMarker == InitMarker /\ [][Extract]_vars

(***************************************************************************)
(* SpecMode: requests sent with a prompt that holds a keyword or none, in  *)
(* each of the three modes.                                                *)
(***************************************************************************)
ModeRequests == 2

PromptDeck ==
    <<"a"," ","D","e","c","k">>
PromptPpt ==
    <<"P","P","T">>
PromptSlides ==
    <<" ","s","l","i","d","e","s","\n">>
\* the letters of a keyword with a blank among them
PromptApart ==
    <<"p","p"," ","t">>

ModePrompts == {TextHi, PromptDeck, PromptPpt, PromptSlides, PromptApart}

Modes == {"text", "image", "presentation"}

NextMode ==
    \/ /\ Len(requests) < ModeRequests
       /\ \E textToSend \in ModePrompts, selected \in Modes :
             handleSendMessage(textToSend, selected)
    \/ \E r \in DOMAIN requests, imageUrl \in ImageUrls : ImageReturns(r, imageUrl)
    \/ \E r \in DOMAIN requests : StreamEnds(r)

SpecMode == Init /\ [][NextMode]_vars

(***************************************************************************)
(* SpecControl: the send/cancel button of ChatView.  Its onClick is        *)
(*   () => isLoading ? handleCancelGeneration : handleSendMessage()        *)
(* While isLoading the arrow function evaluates the name of the handler    *)
(* and returns it: the handler is not called.  output holds what the last  *)
(* click made while isLoading returned, with the request that was current  *)
(* and the session that was shown.                                         *)
(***************************************************************************)
onClick(input) ==
    IF isLoading
    THEN /\ output' = Some([returned |-> "handleCancelGeneration",
                            ref |-> abortControllerRef,
                            sid |-> activeSessionId])
         /\ UNCHANGED <<appVars, buffer>>
    ELSE handleSendMessage(input, "text")

InitControl ==
    /\ sessions = <<ChatSession(1)>>
    /\ activeSessionId = 1
    /\ isLoading = FALSE
    /\ abortControllerRef = 0
    /\ requests = <<>>
    /\ buffer = <<>>
    /\ output = None

NextControl ==
    \/ /\ isLoading \/ Len(requests) < MaxRequests
       /\ \E input \in Prompts : onClick(input)
    \/ \E r \in DOMAIN requests, chunk \in Chunks :
          /\ Len(requests[r].received) < MaxFragments
          /\ FragmentArrives(r, chunk)
    \/ \E r \in DOMAIN requests : StreamEnds(r)
    \/ \E r \in DOMAIN requests, message \in ErrorMessages : ProviderThrows(r, message)
    \/ (Len(sessions) < MaxSessions /\ createNewSession)
    \/ \E id \in 1..MaxSessions : setActiveSessionId(id)

SpecControl == InitControl /\ [][NextControl]_vars

(***************************************************************************)
(* SpecSanitize: sanitizeHistoryContent, not preserving, on the buffers of *)
(* SpecExtract, as the history builder calls it on the content of a        *)
(* message that is not the preserve target.                                *)
(***************************************************************************)
Sanitize ==
    /\ output = None
    /\ output' = Some(sanitizeHistoryContent(buffer.text, FALSE))
    /\ UNCHANGED <<appVars, buffer>>

SpecSanitize == InitExtract /\ [][Sanitize]_vars

(***************************************************************************)
(* SpecStorm: the save effect when every write to localStorage fails with  *)
(* a quota error.  The effect runs again after each setSessions: a state   *)
(* update it makes is followed by the next write, which fails again.       *)
(* The session list at the start is one the sidebar can have made: newest  *)
(* first, the active session in it.                                        *)
(***************************************************************************)
StormSessions == 6

\* the sessions with an id in ids, newest first
RECURSIVE NewestFirstOf(_)
NewestFirstOf(ids) ==
    IF ids = {} THEN <<>>
    ELSE <<ChatSession(Max(ids))>> \o NewestFirstOf(ids \ {Max(ids)})

InitStorm ==
    /\ \E ids \in (SUBSET (1..StormSessions)) \ {{}} :
          /\ sessions = NewestFirstOf(ids)
          /\ activeSessionId \in ids
    /\ isLoading = FALSE
    /\ abortControllerRef = 0
    /\ requests = <<>>
    /\ buffer = <<>>
    /\ output = <<>>

NextStorm == SaveQuotaExceeded

SpecStorm == InitStorm /\ [][NextStorm]_vars /\ WF_vars(NextStorm)

(***************************************************************************)
(* SpecTitle: the auto-title effect of App, the calls of generateTitle it  *)
(* makes, and the rename of a session from the sidebar.                    *)
(*                                                                         *)
(* The effect has [sessions, activeSessionId] as its dependencies: React   *)
(* runs it after every render in which one of them is a new value.  buffer *)
(* holds the dependencies of its last run, and the effect is due when they *)
(* differ from the state; an updater that maps the list makes a new array  *)
(* even when no session changes, so the two actions that only set a title  *)
(* mark the dependencies as stale.  No other handler runs while the effect *)
(* is due.  output holds the calls of generateTitle: the session that was  *)
(* active when the effect ran, the prompt, and whether the call is pending *)
(* or has returned.                                                        *)
(***************************************************************************)
MaxTitleCalls == 3

\* what the user types as a title: a name between blanks, or blanks alone
TempTitles ==
    {<<" ","M","i","n","e"," ">>, <<" ">>}

\* response.text of the provider: a title between quotes
ResponseTexts ==
    {<<"\"","T","r","i","p","\"">>}

Deps == [kind |-> "deps", sessions |-> sessions, activeSessionId |-> activeSessionId]

StaleDeps == [kind |-> "stale", sessions |-> <<>>, activeSessionId |-> 0]

EffectDue == buffer # Deps

NotQuoteOrStar(c) == c \notin {"\"", "*"}

\* generateTitle: response.text.replace(/["*]/g, '').trim(), or the fallback
\* title when the provider throws; response is None when it throws
generateTitle(response) ==
    IF response = None THEN NewChat
    ELSE trim(SelectSeq(response[1], NotQuoteOrStar))

\* prev.map(s => s.id === id ? { ...s, title } : s)
SetTitle(ss, id, title) ==
    [i \in DOMAIN ss |-> IF ss[i].id = id THEN [ss[i] EXCEPT !.title = title] ELSE ss[i]]

\* the auto-title effect, up to its await
renameSessionIfNeeded ==
    /\ EffectDue
    /\ buffer' = Deps
    /\ IF /\ activeSessionId \in SessionIds
          /\ SessionById(activeSessionId).title = NewChat
          /\ Len(SessionById(activeSessionId).messages) = 2
          /\ SessionById(activeSessionId).messages[1].role = "user"
          /\ SessionById(activeSessionId).messages[1].content # <<>>
       THEN /\ Len(output) < MaxTitleCalls
            /\ output' = Append(output,
                             [sid |-> activeSessionId,
                              firstPrompt |-> SessionById(activeSessionId).messages[1].content,
                              pc |-> "pending"])
       ELSE output' = output
    /\ UNCHANGED appVars

\* the call c of generateTitle resolves and the effect sets the title
TitleReturns(c, response) ==
    /\ c \in DOMAIN output
    /\ output[c].pc = "pending"
    /\ sessions' = SetTitle(sessions, output[c].sid, generateTitle(response))
    /\ output' = [output EXCEPT ![c].pc = "returned"]
    /\ buffer' = StaleDeps
    /\ UNCHANGED <<activeSessionId, isLoading, abortControllerRef, requests>>

\* handleSaveRename(sessionId), tempTitle being what the user typed
handleSaveRename(sessionId, tempTitle) ==
    /\ sessionId \in SessionIds
    /\ IF trim(tempTitle) # <<>>
       THEN /\ sessions' = SetTitle(sessions, sessionId, trim(tempTitle))
            /\ buffer' = StaleDeps
       ELSE UNCHANGED <<sessions, buffer>>
    /\ UNCHANGED <<activeSessionId, isLoading, abortControllerRef, requests, output>>

\* the state once App has mounted on an empty store and the effect has run
InitTitle ==
    /\ sessions = <<ChatSession(1)>>
    /\ activeSessionId = 1
    /\ isLoading = FALSE
    /\ abortControllerRef = 0
    /\ requests = <<>>
    /\ buffer = [kind |-> "deps", sessions |-> <<ChatSession(1)>>, activeSessionId |-> 1]
    /\ output = <<>>

NextTitle ==
    \/ renameSessionIfNeeded
    \/ /\ ~EffectDue
       /\ requests = <<>>
       /\ \E textToSend \in Prompts : handleSendMessage(textToSend, "text")
    \/ /\ ~EffectDue
       /\ \E r \in DOMAIN requests, chunk \in Chunks :
             /\ Len(requests[r].received) < MaxFragments
             /\ FragmentArrives(r, chunk)
    \/ (~EffectDue /\ \E r \in DOMAIN requests : StreamEnds(r))
    \/ /\ ~EffectDue
       /\ \E c \in DOMAIN output, response \in {None} \cup {Some(t) : t \in ResponseTexts} :
             TitleReturns(c, response)
    \/ /\ ~EffectDue
       /\ \E id \in SessionIds, tempTitle \in TempTitles : handleSaveRename(id, tempTitle)
    \/ (~EffectDue /\ Len(sessions) < MaxSessions /\ createNewSession)
    \/ (~EffectDue /\ \E id \in 1..MaxSessions : setActiveSessionId(id))

SpecTitle == InitTitle /\ [][NextTitle]_vars

(***************************************************************************)
(* The claims.                                                             *)
(***************************************************************************)
\* the messages of the session sid in the session list ss
MessagesOf(ss, sid) ==
    IF \E i \in DOMAIN ss : ss[i].id = sid
    THEN ss[CHOOSE i \in DOMAIN ss : ss[i].id = sid].messages
    ELSE <<>>

\* the messages with the id mid of the session sid
MessagesWithId(ss, sid, mid) ==
    {MessagesOf(ss, sid)[j] : j \in {k \in DOMAIN MessagesOf(ss, sid) :
                                        MessagesOf(ss, sid)[k].id = mid}}

SourcesOf(m) == IF m.sources = None THEN <<>> ELSE m.sources[1]

IsPrefixOf(a, b) == Len(a) <= Len(b) /\ SubSeq(b, 1, Len(a)) = a

\* the batch merged into acc: a source whose uri acc holds already is dropped
RECURSIVE MergeBatch(_, _)
MergeBatch(acc, batch) ==
    IF batch = <<>> THEN acc
    ELSE MergeBatch(IF \E k \in DOMAIN acc : acc[k].uri = batch[1].uri THEN acc
                    ELSE Append(acc, batch[1]),
                    Tail(batch))

\* the batches of the fragments merged in the order of arrival
RECURSIVE MergeFragments(_, _)
MergeFragments(acc, chunks) ==
    IF chunks = <<>> THEN acc
    ELSE MergeFragments(IF chunks[1].sources = None THEN acc
                        ELSE MergeBatch(acc, chunks[1].sources[1]),
                        Tail(chunks))

\* C1 as claimed: while the stream of a request runs, the sources of its message
\* are the union of all the batches received so far, de-duplicated by uri, in
\* first-seen order with the first-seen title.
C1_SourcesAreMergedBatches ==
    \A r \in DOMAIN requests :
        requests[r].pc = "stream" =>
            \A m \in MessagesWithId(sessions, requests[r].sid, requests[r].mid) :
                SourcesOf(m) = MergeFragments(<<>>, requests[r].received)

\* C1 as amended: while the stream of a request runs its message has no
\* sources, and when the stream ends the sources of the message are the union of
\* all the batches received, de-duplicated by uri, in first-seen order with the
\* first-seen title.
C1_SourcesMergedAtEnd ==
    /\ [](\A r \in DOMAIN requests :
            requests[r].pc = "stream" =>
                \A m \in MessagesWithId(sessions, requests[r].sid, requests[r].mid) :
                    m.sources = None)
    /\ [][\A r \in DOMAIN requests :
            (StreamEnds(r) /\ ~requests[r].aborted) =>
                \A m \in MessagesWithId(sessions', requests[r].sid, requests[r].mid) :
                    SourcesOf(m) = MergeFragments(<<>>, requests[r].received)]_vars

\* an ended stream whose batches shared a uri: one entry for it, the first title
C1_Witness ==
    \E r \in DOMAIN requests :
        /\ requests[r].pc = "done"
        /\ \E m \in MessagesWithId(sessions, requests[r].sid, requests[r].mid) :
              m.sources = Some(<<SourceA, SourceB, SourceC>>)

\* C2: when handleCancelGeneration aborts a request that has folded a fragment,
\* the session of the request is left with the message list the request read
\* followed by the request's user message.
C2_CancelRestoresSession ==
    [][\A r \in DOMAIN requests :
          (/\ handleCancelGeneration
           /\ abortControllerRef = r
           /\ requests[r].pc = "stream"
           /\ ~requests[r].aborted
           /\ Len(requests[r].received) >= 1)
          => MessagesOf(sessions', requests[r].sid)
               = requests[r].pre \o <<requests[r].userMessage>>]_vars

\* the units of a history built from the message with the id
UnitsOf(history, id) == {history[k] : k \in {j \in DOMAIN history : history[j].of = id}}

\* the text sent for the content of the message with the id: the last part of its unit
ContentTexts(history, id) ==
    {u.parts[Len(u.parts)].value :
        u \in {v \in UnitsOf(history, id) : v.parts[Len(v.parts)].kind = "text"}}

\* C3: in the history of a request, the attachment of a message is sent as
\* inlineData if and only if the message is among the last 3 of the windowed
\* list; the attachment of every earlier message is sent as the placeholder text.
C3_AttachmentOfLastThree ==
    \A r \in DOMAIN requests :
        requests[r].pc = "stream" =>
            LET toProcess == MessagesToProcess(requests[r].pre)
                n == Len(toProcess)
            IN  \A k \in 1..n :
                    toProcess[k].attachment # None =>
                        \E u \in UnitsOf(requests[r].history, toProcess[k].id) :
                            IF k > n - 3
                            THEN u.parts[1] = [kind |-> "inlineData",
                                               value |-> toProcess[k].attachment[1]]
                            ELSE u.parts[1] = [kind |-> "text",
                                               value |-> AttachmentRemoved]

\* the positions of the messages that hold an embedded document
DocumentPositions(messages) ==
    {k \in DOMAIN messages : cleanHtmlContent(messages[k].content) # <<>>}

\* C4: when several messages of the list a request read hold an embedded
\* document, the history holds the document of the most recent of them verbatim,
\* and holds the placeholder, not the document, for every earlier one.
C4_ExactlyOneDocumentKept ==
    \A r \in DOMAIN requests :
        (requests[r].pc = "stream"
           /\ Cardinality(DocumentPositions(requests[r].pre)) >= 2) =>
            LET pre == requests[r].pre
                last == Max(DocumentPositions(pre))
            IN  /\ \E t \in ContentTexts(requests[r].history, pre[last].id) :
                       includes(t, cleanHtmlContent(pre[last].content))
                /\ \A k \in DocumentPositions(pre) \ {last} :
                       \A t \in ContentTexts(requests[r].history, pre[k].id) :
                           /\ includes(t, HtmlOmitted)
                           /\ ~includes(t, cleanHtmlContent(pre[k].content))

\* C5: for every message of the window that is not the preserve target and
\* holds an embedded document, closed or not, the text sent holds the
\* placeholder and no start marker of a document.
C5_OtherDocumentsOmitted ==
    \A r \in DOMAIN requests :
        requests[r].pc = "stream" =>
            LET toProcess == MessagesToProcess(requests[r].pre)
            IN  \A k \in DOMAIN toProcess :
                    (/\ toProcess[k].id # LastPresentationId(requests[r].pre)
                     /\ cleanHtmlContent(toProcess[k].content) # <<>>) =>
                        /\ ContentTexts(requests[r].history, toProcess[k].id) # {}
                        /\ \A t \in ContentTexts(requests[r].history, toProcess[k].id) :
                               includes(t, HtmlOmitted) /\ StartIndex(t) = 0

\* C6 as claimed: for every document between a prefix and a suffix,
\* cleanHtmlContent returns the trimmed document.
C6_RoundTripEveryDocument ==
    (buffer # <<>> /\ output # None /\ buffer.kind = "wrap") =>
        output[1] = trim(buffer.doc)

\* the only closing tag of the document is the one that ends it
ClosedOnce(doc) == EndIndex(doc) = Len(doc) - CloseTagLen + 1

\* C6 as amended: for every document whose only closing tag is the one that
\* ends it, between a prefix and a suffix, cleanHtmlContent returns the trimmed
\* document.
C6_RoundTrip ==
    (buffer # <<>> /\ output # None /\ buffer.kind = "wrap" /\ ClosedOnce(buffer.doc)) =>
        output[1] = trim(buffer.doc)

C6_Witness ==
    /\ buffer # <<>> /\ output # None
    /\ buffer.kind = "wrap"
    /\ buffer.prefix = PieceFence /\ buffer.suffix = SuffixFence
    /\ ClosedOnce(buffer.doc)
    /\ Len(buffer.doc) > Len(DoctypeLower) + Len(HtmlClose)
    /\ output[1] = buffer.doc

\* C7: for every prefix of a document, cleanHtmlContent returns a prefix of the
\* trimmed document.
C7_PartialIsPrefix ==
    (buffer # <<>> /\ output # None /\ buffer.kind = "cut") =>
        IsPrefixOf(output[1], trim(buffer.doc))

\* a cut document whose trailing fence was stripped
C7_Witness ==
    /\ buffer # <<>> /\ output # None
    /\ buffer.kind = "cut"
    /\ EndIndex(buffer.text) = 0
    /\ output[1] # <<>>
    /\ Len(output[1]) + Len(Backticks) <= Len(buffer.text)
    /\ IsPrefixOf(output[1], trim(buffer.doc))

\* C8: once a request that was not cancelled has ended, its assistant message
\* is complete: no ended request leaves its message in progress.
C8_EndedRequestIsComplete ==
    \A r \in DOMAIN requests :
        (requests[r].pc = "done" /\ ~requests[r].aborted) =>
            \A i \in DOMAIN sessions :
                \A j \in DOMAIN sessions[i].messages :
                    sessions[i].messages[j].id = requests[r].mid =>
                        sessions[i].messages[j].status = "complete"

\* a stream that ended with no fragment: the message is complete and empty
C8_Witness ==
    \E r \in DOMAIN requests :
        /\ requests[r].pc = "done" /\ ~requests[r].aborted
        /\ \E m \in MessagesWithId(sessions, requests[r].sid, requests[r].mid) :
              m.status = "complete" /\ m.type = "text" /\ m.content = <<>>

\* the session list ss with the message mid of the session sid turned into the
\* error message, and nothing else changed
WithErrorMessage(ss, sid, mid, message) ==
    [i \in DOMAIN ss |->
        [ss[i] EXCEPT !.messages =
            [j \in DOMAIN ss[i].messages |->
                IF ss[i].id = sid /\ ss[i].messages[j].id = mid
                THEN [ss[i].messages[j] EXCEPT !.content = message,
                                               !.type = "error",
                                               !.status = "complete"]
                ELSE ss[i].messages[j]]]]

\* C9: when the provider throws in a request that was not cancelled, the
\* assistant message of the request gets the error string as its content, the
\* type error and the status complete, and no other message changes.
C9_ErrorReplacesContent ==
    [][\A r \in DOMAIN requests : \A message \in ErrorMessages :
          (ProviderThrows(r, message) /\ ~requests[r].aborted)
          => sessions' = WithErrorMessage(sessions, requests[r].sid,
                                          requests[r].mid, message)]_vars

\* an error message in a session, after the request that folded text threw
C9_Witness ==
    \E r \in DOMAIN requests :
        /\ requests[r].pc = "done" /\ ~requests[r].aborted
        /\ \E m \in MessagesWithId(sessions, requests[r].sid, requests[r].mid) :
              m.type = "error" /\ m.status = "complete" /\ m.content \in ErrorMessages
        /\ Len(MessagesOf(sessions, requests[r].sid)) >= 2

\* C10: every session holds at most one message in progress.
C10_OneInProgress ==
    \A i \in DOMAIN sessions :
        Cardinality({j \in DOMAIN sessions[i].messages :
                        sessions[i].messages[j].status = "in-progress"}) <= 1

\* the requests that are running and whose cancellation has not been triggered
LiveRequests ==
    {r \in DOMAIN requests :
        requests[r].pc \in {"image", "stream"} /\ ~requests[r].aborted}

\* C11: at most one request whose cancellation has not been triggered is
\* running, and isLoading is true for as long as such a request is running.
C11_OneLiveRequest ==
    /\ Cardinality(LiveRequests) <= 1
    /\ (LiveRequests # {} => isLoading)

\* C12: when handleCancelGeneration runs, every request that is running and
\* not yet cancelled has its token aborted; and no fragment of an aborted
\* request is folded into the sessions.
C12_CancelAbortsRunningRequest ==
    /\ [][handleCancelGeneration =>
            \A r \in LiveRequests : requests'[r].aborted]_vars
    /\ [][\A r \in DOMAIN requests : \A chunk \in Chunks :
            (requests[r].aborted /\ (FragmentArrives(r, chunk) \/ StreamEnds(r)))
               => sessions' = sessions]_vars

\* the session of the list ss with the oldest createdAt, those of the list
\* being created at different times
OldestOf(ss) ==
    CHOOSE i \in DOMAIN ss : \A j \in DOMAIN ss : ss[i].createdAt <= ss[j].createdAt

NewestOf(ss) ==
    CHOOSE i \in DOMAIN ss : \A j \in DOMAIN ss : ss[i].createdAt >= ss[j].createdAt

SessionSet(ss) == {ss[i] : i \in DOMAIN ss}

\* C13: when the save effect meets a quota error on a list that is not empty,
\* exactly the session with the oldest createdAt is removed; if it was the
\* active one the newest of the remaining sessions becomes active, otherwise
\* the active session is unchanged.
C13_OldestEvicted ==
    [][(SaveQuotaExceeded /\ sessions # <<>>) =>
          LET oldest == sessions[OldestOf(sessions)]
          IN  /\ SessionSet(sessions') = SessionSet(sessions) \ {oldest}
              /\ Len(sessions') = Len(sessions) - 1
              /\ IF activeSessionId = oldest.id
                 THEN sessions' # <<>> =>
                          activeSessionId' = sessions'[NewestOf(sessions')].id
                 ELSE activeSessionId' = activeSessionId]_vars

\* the first session was evicted while it was the active one and one of the
\* two others holds messages
C13_Witness ==
    /\ Len(sessions) = 2
    /\ 1 \notin SessionIds
    /\ activeSessionId = sessions[NewestOf(sessions)].id
    /\ \E i \in DOMAIN sessions : sessions[i].messages # <<>>

\* C15: after handleDeleteSession(id) no session with that id is in the list.
C15_DeletedSessionIsGone ==
    [][\A id \in 1..StoreSessions :
          handleDeleteSession(id) => id \notin {sessions'[i].id : i \in DOMAIN sessions'}]_vars

\* the stored value is a list of sessions that is not empty
ValidStoredList(item) == item.t = "array" /\ item.length > 0

\* C14: for every stored value of chatSessions that is missing or is not a
\* list of sessions that is not empty, the load effect does not raise and
\* leaves a freshly created empty session as the only session, the active one.
C14_LoadFallsBack ==
    (/\ buffer # <<>> /\ buffer.kind = "stored" /\ output # None
     /\ ~ValidStoredList(buffer.chatSessions)) =>
        /\ output = Some("mounted")
        /\ Len(sessions) = 1
        /\ sessions[1].messages = <<>>
        /\ activeSessionId = sessions[1].id

\* the position in the list of the message with the id
PositionOf(messages, id) == CHOOSE i \in DOMAIN messages : messages[i].id = id

\* C16: for a session of more than 15 messages, every unit of the history
\* derives from one of the last 15 messages of the list, and the units are in
\* the order of their messages.
C16_WindowOfFifteen ==
    \A r \in DOMAIN requests :
        (requests[r].pc = "stream" /\ Len(requests[r].pre) > 15) =>
            LET pre == requests[r].pre
                history == requests[r].history
            IN  /\ \A k \in DOMAIN history :
                       \E i \in (Len(pre) - 14)..Len(pre) : pre[i].id = history[k].of
                /\ \A k, l \in DOMAIN history :
                       k < l => PositionOf(pre, history[k].of) < PositionOf(pre, history[l].of)

\* a history of 15 units built from a list of 17 messages
C16_Witness ==
    \E r \in DOMAIN requests :
        /\ requests[r].pc = "stream"
        /\ Len(requests[r].pre) = 17
        /\ Len(requests[r].history) = 15
        /\ requests[r].history[1].of = requests[r].pre[3].id

\* the text holds an inline base64 image: data:image/ and, after it, ;base64,
HoldsImageData(t) ==
    \E i \in 1..Len(t) :
        /\ OccursAt(t, i, DataImage)
        /\ \E j \in i..Len(t) : OccursAt(t, j, Base64Comma)

\* C17: no text part of a history holds an inline base64 image, whether its
\* message is the preserve target or not; where the image stood outside an
\* omitted document, the text holds the words Base64 Image Data Removed.
C17_ImageDataRemoved ==
    \A r \in DOMAIN requests :
        requests[r].pc = "stream" =>
            LET pre == requests[r].pre
                history == requests[r].history
            IN  \A k \in DOMAIN pre :
                    HoldsImageData(pre[k].content) =>
                        /\ ContentTexts(history, pre[k].id) # {}
                        /\ \A t \in ContentTexts(history, pre[k].id) :
                               /\ ~HoldsImageData(t)
                               /\ (includes(t, HtmlOmitted) \/ includes(t, Base64Removed))
                               /\ (pre[k].id = LastPresentationId(pre)
                                     => includes(t, Base64Removed))

\* a preserve target and another message, both with an inline image, sent
C17_Witness ==
    \E r \in DOMAIN requests :
        /\ requests[r].pc = "stream"
        /\ \E k, l \in DOMAIN requests[r].pre :
              /\ requests[r].pre[k].content = UriContent
              /\ requests[r].pre[l].content = DeckUriContent
              /\ requests[r].pre[l].id = LastPresentationId(requests[r].pre)
              /\ \A t \in ContentTexts(requests[r].history, requests[r].pre[l].id) :
                     includes(t, Base64Removed) /\ includes(t, HtmlOpen)

\* C18 as claimed: the text sent for the preserve target is its stored content,
\* character for character.
C18_TargetSentVerbatim ==
    \A r \in DOMAIN requests :
        requests[r].pc = "stream" =>
            \A k \in DOMAIN requests[r].pre :
                requests[r].pre[k].id = LastPresentationId(requests[r].pre) =>
                    ContentTexts(requests[r].history, requests[r].pre[k].id)
                        = {requests[r].pre[k].content}

\* the presentation with the inline image, as it is sent when it is the target
DeckUriSent == DeckHead \o Base64Removed \o DeckFoot

\* C18 as amended: the text sent for the preserve target is its stored content
\* with every inline base64 image replaced by the words Base64 Image Data
\* Removed and nothing else changed: the document is kept.
C18_TargetSentWithImagesRemoved ==
    \A r \in DOMAIN requests :
        requests[r].pc = "stream" =>
            \A k \in DOMAIN requests[r].pre :
                requests[r].pre[k].id = LastPresentationId(requests[r].pre) =>
                    LET content == requests[r].pre[k].content
                    IN  ContentTexts(requests[r].history, requests[r].pre[k].id)
                          = {IF content = DeckUriContent THEN DeckUriSent ELSE content}

\* the presentation with the inline image is the target and was sent
C18_Witness ==
    \E r \in DOMAIN requests :
        /\ requests[r].pc = "stream"
        /\ \E k \in DOMAIN requests[r].pre :
              /\ requests[r].pre[k].id = LastPresentationId(requests[r].pre)
              /\ requests[r].pre[k].content = DeckUriContent
              /\ DeckUriSent \in ContentTexts(requests[r].history, requests[r].pre[k].id)

SourceSet(m) == {SourcesOf(m)[k] : k \in DOMAIN SourcesOf(m)}

\* C19: every step of a stream leaves the content a message in progress had
\* as a prefix of its content, and the sources it had among its sources.
C19_FoldIsIncremental ==
    [][\A i \in DOMAIN sessions : \A j \in DOMAIN sessions[i].messages :
          LET m == sessions[i].messages[j]
          IN  m.status = "in-progress" =>
                  \A n \in MessagesWithId(sessions', sessions[i].id, m.id) :
                      /\ IsPrefixOf(m.content, n.content)
                      /\ SourceSet(m) \subseteq SourceSet(n)]_vars

\* a message that was folded twice and then got its sources
C19_Witness ==
    \E i \in DOMAIN sessions : \E j \in DOMAIN sessions[i].messages :
        /\ Len(sessions[i].messages[j].content) >= 2
        /\ sessions[i].messages[j].sources # None
        /\ sessions[i].messages[j].status = "complete"

\* C20: a request whose cancellation was triggered never gives its message the
\* type error: a provider error raised after the cancellation changes no
\* session, and no message of a cancelled request has the type error.
C20_CancelIsNoError ==
    /\ [](\A r \in DOMAIN requests :
            requests[r].aborted =>
                \A i \in DOMAIN sessions : \A j \in DOMAIN sessions[i].messages :
                    sessions[i].messages[j].id = requests[r].mid
                        => sessions[i].messages[j].type # "error")
    /\ [][\A r \in DOMAIN requests : \A message \in ErrorMessages :
            (requests[r].aborted /\ ProviderThrows(r, message))
               => sessions' = sessions]_vars

\* a cancelled request has ended and its message, left in another session than
\* the one the cancellation filtered, is still in progress
C20_Witness ==
    \E r \in DOMAIN requests :
        /\ requests[r].aborted /\ requests[r].pc = "done"
        /\ \E m \in MessagesWithId(sessions, requests[r].sid, requests[r].mid) :
              m.status = "in-progress" /\ m.type = "text"

\* the messages of the list that are kept, in their order
RECURSIVE KeepIds(_)
KeepIds(messages) ==
    IF messages = <<>> THEN <<>>
    ELSE (IF messages[1].attachment # None \/ messages[1].content # <<>>
          THEN <<messages[1].id>> ELSE <<>>) \o KeepIds(Tail(messages))

\* C21: every unit of a history has at least one part; the units are those of
\* the messages of the window that have an attachment or a content that is not
\* empty, in the order of the messages: a message with neither has no unit.
C21_UnitsHaveParts ==
    \A r \in DOMAIN requests :
        requests[r].pc = "stream" =>
            LET history == requests[r].history
            IN  /\ \A k \in DOMAIN history : Len(history[k].parts) >= 1
                /\ [k \in DOMAIN history |-> history[k].of]
                      = KeepIds(MessagesToProcess(requests[r].pre))

\* a message with no part stood between two messages that have units
C21_Witness ==
    \E r \in DOMAIN requests :
        /\ requests[r].pc = "stream"
        /\ Len(requests[r].pre) = 4
        /\ requests[r].pre[2].content = <<>> /\ requests[r].pre[2].attachment = None
        /\ requests[r].pre[1].content = <<>> /\ requests[r].pre[1].attachment # None
        /\ [k \in DOMAIN requests[r].history |-> requests[r].history[k].of]
              = <<requests[r].pre[1].id, requests[r].pre[3].id, requests[r].pre[4].id>>

\* the text <!doctype html>, with one blank, or the text <html stands at i
\* (in any case of the letters)
LiteralMarkerAt(s, i) == OccursAtI(s, i, DoctypeLower) \/ OccursAtI(s, i, HtmlOpen)

\* <!doctype, white space, html> or the text <html stands at i
MarkerAt(s, i) ==
    \/ OccursAtI(s, i, HtmlOpen)
    \/ /\ OccursAtI(s, i, DoctypeWord)
       /\ \E w \in 1..Len(s) :
             /\ \A k \in (i + Len(DoctypeWord))..(i + Len(DoctypeWord) + w - 1) :
                    k <= Len(s) /\ IsWs(s[k])
             /\ OccursAtI(s, i + Len(DoctypeWord) + w, HtmlGt)

HoldsKeyword(prompt) ==
    \E kw \in {KwPresentation, KwSlide, KwDeck, KwPpt, KwPowerpoint} :
        \E i \in 1..Len(prompt) : OccursAtI(prompt, i, kw)

\* C23: a request sent in the mode text with a prompt that holds a keyword has
\* the effective mode presentation; every other request has the mode that was
\* selected; the user message and the assistant message of the request carry
\* the effective mode.
C23_EffectiveMode ==
    [][\A textToSend \in ModePrompts, selected \in Modes :
          handleSendMessage(textToSend, selected) =>
              LET r == Len(requests) + 1
                  effective == IF selected = "text" /\ HoldsKeyword(textToSend)
                               THEN "presentation" ELSE selected
                  sent == MessagesOf(sessions', requests'[r].sid)
              IN  /\ Len(sent) = Len(MessagesOf(sessions, requests'[r].sid)) + 2
                  /\ sent[Len(sent) - 1].role = "user"
                  /\ sent[Len(sent) - 1].mode = effective
                  /\ sent[Len(sent)].role = "assistant"
                  /\ sent[Len(sent)].mode = effective]_vars

\* a prompt with a keyword was sent as a presentation, and after it a prompt
\* with a keyword in the mode image and one with no keyword in the mode text
C23_Witness ==
    LET sent == MessagesOf(sessions, 1)
    IN  /\ Len(sent) = 4
        /\ sent[1].content = <<"s","l","i","d","e","s">>
        /\ sent[1].mode = "presentation" /\ sent[2].mode = "presentation"
        /\ sent[2].status = "complete"
        /\ sent[3].content = PromptPpt
        /\ sent[3].mode = "image" /\ sent[4].mode = "image"

\* C24: a click on the send/cancel control made while isLoading aborts the
\* token of the current request, sets isLoading to false and removes the
\* messages in progress of the session shown, as handleCancelGeneration does.
C24_ControlCancels ==
    [][\A input \in Prompts :
          (isLoading /\ onClick(input) /\ output' # output) =>
              /\ abortControllerRef # 0 => requests'[abortControllerRef].aborted
              /\ ~isLoading'
              /\ sessions' = onCancelGeneration(sessions, activeSessionId)]_vars

\* C25: for a buffer that holds a closed document, sanitizeHistoryContent
\* returns the text before the first start marker, the placeholder between two
\* pairs of line breaks, and the text after the first closing tag that follows
\* the marker: the span replaced is the document cleanHtmlContent identifies.
C25_OmittedSpanIsDocument ==
    (buffer # <<>> /\ output # None /\ buffer.kind = "wrap") =>
        LET start == StartIndex(buffer.text)
            html == SubstringFrom(buffer.text, start)
            end == EndIndex(html)
        IN  output[1] = SubSeq(buffer.text, 1, start - 1)
                          \o <<"\n", "\n">> \o HtmlOmitted \o <<"\n", "\n">>
                          \o SubstringFrom(html, end + CloseTagLen)

\* C26: when every write fails with a quota error, each failed write on a list
\* that is not empty removes one session and no other, a failed write on the
\* empty list changes nothing, and the list ends empty and stays so: the cycle
\* of evictions and retries ends.
C26_EvictionEnds ==
    /\ [][SaveQuotaExceeded =>
            IF sessions = <<>> THEN UNCHANGED <<sessions, activeSessionId>>
            ELSE /\ Len(sessions') = Len(sessions) - 1
                 /\ SessionSet(sessions') \subseteq SessionSet(sessions)]_vars
    /\ <>[](sessions = <<>>)

\* every session was evicted and no session is active
C26_Witness ==
    /\ sessions = <<>>
    /\ activeSessionId = 0

\* C27: a request that handleCancelGeneration has aborted has no message in
\* progress in any session: the handler removed the request's assistant
\* message from the session the request was sent in, whichever session was
\* shown when it ran.
C27_CancelledMessageRemoved ==
    \A r \in DOMAIN requests :
        requests[r].aborted =>
            \A i \in DOMAIN sessions : \A j \in DOMAIN sessions[i].messages :
                sessions[i].messages[j].id = requests[r].mid =>
                    sessions[i].messages[j].status # "in-progress"

\* C28: the session list is not empty and the active session is one of the
\* list, in every state the sidebar and the save effect lead to.
C28_ActiveSessionListed ==
    /\ sessions # <<>>
    /\ activeSessionId \in SessionIds

\* the titles a rename can set
UserTitles == {trim(t) : t \in TempTitles} \ {<<>>}

\* C29: a session that has a title the user set through the rename keeps it
\* when a call of generateTitle returns.
C29_RenameIsKept ==
    [][\A c \in DOMAIN output :
          \A response \in {None} \cup {Some(t) : t \in ResponseTexts} :
              TitleReturns(c, response) =>
                  \A i \in DOMAIN sessions :
                      sessions[i].title \in UserTitles =>
                          sessions'[i].title = sessions[i].title]_vars

\* C30: once a call of generateTitle made for a session has returned, the
\* effect makes no further call for that session.
C30_NoCallAfterReturn ==
    [][\A c \in DOMAIN output :
          output[c].pc = "returned" =>
              \A d \in DOMAIN output' :
                  output'[d].sid = output[c].sid => d \in DOMAIN output]_vars

====
